---- MODULE Spec2Model ----
(***************************************************************************)
(* tomato-nvram: the NVRAM settings diff is grouped, collapsed, factored   *)
(* into shell loops and written out as a script (src/tomato-nvram.py).     *)
(*                                                                         *)
(* Python strings are modelled as sequences of one-character strings, so   *)
(* that the regular expressions, the quoting and the sorting of the source *)
(* are computed character by character.                                    *)
(***************************************************************************)
EXTENDS Integers, Sequences, FiniteSets, TLC

VARIABLES
    pc,          \* position of main / write_script
    cfg,         \* Config: sequence of [name, pattern] sections
    minsize,     \* the minsize argument of Groups.dedup
    crt,         \* what the https_crt_file value of the diff decodes to
    items,       \* the diff mapping handed to write_script: set of [name, value]
    outfile,     \* the output file: NoFile, or the sequence of chunks written
    groups,      \* Groups: set of Group records
    p2k,         \* Deduper.prefix_to_keys
    group_names, \* Deduper.group_names
    cleanup,     \* Deduper.cleanup: (prefix, key) -> the item and its group
    queue,       \* the candidates to_factor has still to visit, in its sorted order
    nextid,      \* stands for id(group) of the next loop group
    steps,       \* history: one record per factoring step of Deduper.dedup
    quote,       \* Item.quoted on its own: the value and the text made of it
    differ,      \* diff_files on its own: the parsed files and the mapping returned
    fmt          \* Group.formatted on its own: the group's items and the lines rendered

pipeline == <<pc, cfg, minsize, crt, items, outfile, groups, p2k, group_names,
              cleanup, queue, nextid, steps>>
aux == <<quote, differ, fmt>>
vars == <<pipeline, aux>>

\* The position of a part of the program that is not running
Idle == "idle"

(***************************************************************************)
(* Bounds of the model.                                                    *)
(***************************************************************************)
MaxKeys == 7
MaxValueLen == 4
MaxStanzas == 3
MaxItems == 3

(***************************************************************************)
(* Characters.                                                             *)
(***************************************************************************)
\* The backquote cannot be written in a string of this language: it is named.
BQ == "backquote"

Ascii ==
    <<" ", "!", "\"", "#", "$", "%", "&", "'", "(", ")", "*", "+", ",", "-", ".", "/",
      "0", "1", "2", "3", "4", "5", "6", "7", "8", "9", ":", ";", "<", "=", ">", "?",
      "@", "A", "B", "C", "D", "E", "F", "G", "H", "I", "J", "K", "L", "M", "N", "O",
      "P", "Q", "R", "S", "T", "U", "V", "W", "X", "Y", "Z", "[", "\\", "]", "^", "_",
      BQ, "a", "b", "c", "d", "e", "f", "g", "h", "i", "j", "k", "l", "m", "n", "o",
      "p", "q", "r", "s", "t", "u", "v", "w", "x", "y", "z", "{", "|", "}", "~">>

NL == "\n"

Chars == {Ascii[i] : i \in 1..Len(Ascii)} \cup {NL}

Ord == [c \in Chars |-> IF c = NL THEN 10 ELSE 31 + (CHOOSE i \in 1..Len(Ascii) : Ascii[i] = c)]

Chr(n) == Ascii[n - 31]

IsLower(c) == Ord[c] >= Ord["a"] /\ Ord[c] <= Ord["z"]
IsUpper(c) == Ord[c] >= Ord["A"] /\ Ord[c] <= Ord["Z"]
IsDigit(c) == Ord[c] >= Ord["0"] /\ Ord[c] <= Ord["9"]

Upper(c) == IF IsLower(c) THEN Chr(Ord[c] - 32) ELSE c
Lower(c) == IF IsUpper(c) THEN Chr(Ord[c] + 32) ELSE c

LowerChars == {c \in Chars : IsLower(c)}
DigitChars == {c \in Chars : IsDigit(c)}

StrUpper(s) == [i \in 1..Len(s) |-> Upper(s[i])]
StrLower(s) == [i \in 1..Len(s) |-> Lower(s[i])]
Capitalize(s) == [i \in 1..Len(s) |-> IF i = 1 THEN Upper(s[i]) ELSE Lower(s[i])]

\* Python's < on str: lexicographic by code point.
StrLess(a, b) ==
    \E i \in 1..Len(b) :
        /\ i - 1 <= Len(a)
        /\ \A j \in 1..(i - 1) : a[j] = b[j]
        /\ \/ Len(a) = i - 1
           \/ Ord[a[i]] < Ord[b[i]]

Range(s) == {s[i] : i \in 1..Len(s)}

\* sorted() of a set of distinct strings
RECURSIVE SortedStrs(_)
SortedStrs(S) ==
    IF S = {} THEN <<>>
    ELSE LET m == CHOOSE x \in S : \A y \in S \ {x} : StrLess(x, y)
         IN  <<m>> \o SortedStrs(S \ {m})

\* Number of consecutive characters of s, from position i on, that are in
\* the class cls (a greedy [class]* of a regular expression).
RECURSIVE Span(_, _, _)
Span(s, i, cls) ==
    IF i <= Len(s) /\ s[i] \in cls THEN 1 + Span(s, i + 1, cls) ELSE 0

StartsWith(s, p) == Len(p) <= Len(s) /\ SubSeq(s, 1, Len(p)) = p

(***************************************************************************)
(* Item: one setting (class Item).                                         *)
(***************************************************************************)

IsSpace(c) == c \in {" ", NL}

\* special_chars without the backslash in its character class
SpecialAtNoBackslash(v, i) ==
    \/ v[i] \in {"\"", BQ}
    \/ v[i] = "$" /\ i < Len(v) /\ ~IsSpace(v[i + 1])

\* special_chars.search matches at position i: ["\\`] or $ followed by a
\* character that is not whitespace.
SpecialAt(v, i) ==
    \/ v[i] \in {"\"", "\\", BQ}
    \/ v[i] = "$" /\ i < Len(v) /\ ~IsSpace(v[i + 1])

HasSpecial(v) == \E i \in 1..Len(v) : SpecialAt(v, i)

\* list_break matches (the empty string) after position i: behind it a '>',
\* and not at '$', which is the end of the string or just before a final
\* newline.
BreakAfter(v, i) ==
    /\ v[i] = ">"
    /\ i # Len(v)
    /\ ~(i = Len(v) - 1 /\ v[Len(v)] = NL)

RECURSIVE ListBreakSub(_, _)
ListBreakSub(v, i) ==
    IF i > Len(v) THEN <<>>
    ELSE <<v[i]>> \o (IF BreakAfter(v, i) THEN <<"\\", NL>> ELSE <<>>)
                  \o ListBreakSub(v, i + 1)

RECURSIVE EscapeSpecial(_, _)
EscapeSpecial(v, i) ==
    IF i > Len(v) THEN <<>>
    ELSE (IF SpecialAt(v, i) THEN <<"\\", v[i]>> ELSE <<v[i]>>)
         \o EscapeSpecial(v, i + 1)

\* shlex.quote: characters outside [\w@%+=:,./-] make the string unsafe.
ShlexSafe(c) ==
    \/ IsLower(c) \/ IsUpper(c) \/ IsDigit(c)
    \/ c \in {"_", "@", "%", "+", "=", ":", ",", ".", "/", "-"}

RECURSIVE ReplaceSingleQuotes(_, _)
ReplaceSingleQuotes(v, i) ==
    IF i > Len(v) THEN <<>>
    ELSE (IF v[i] = "'" THEN <<"'", "\"", "'", "\"", "'">> ELSE <<v[i]>>)
         \o ReplaceSingleQuotes(v, i + 1)

ShlexQuote(v) ==
    IF v = <<>> THEN <<"'", "'">>
    ELSE IF \A i \in 1..Len(v) : ShlexSafe(v[i]) THEN v
    ELSE <<"'">> \o ReplaceSingleQuotes(v, 1) \o <<"'">>

Quoted(value) ==
    IF NL \in Range(value) /\ ~HasSpecial(value)
    THEN <<"\"", "\\", NL>> \o value \o <<"\"">>
    ELSE IF (\E i \in 1..Len(value) : BreakAfter(value, i)) /\ ~HasSpecial(value)
    THEN <<"\"", "\\", NL>> \o ListBreakSub(value, 1) \o <<"\"">>
    ELSE IF "'" \in Range(value)
    THEN <<"\"">> \o EscapeSpecial(value, 1) \o <<"\"">>
    ELSE IF value # <<>> THEN ShlexQuote(value) ELSE value

Count(s, c) == Cardinality({i \in 1..Len(s) : s[i] = c})

\* Item.command, without its constant head 'nvram set '
Command(name, value) == name \o <<"=">> \o Quoted(value)

ItemNewlines(name, value) == Count(Command(name, value), NL)

ReplaceUnderscores(s) == [i \in 1..Len(s) |-> IF s[i] = "_" THEN " " ELSE s[i]]

\* Item.sort_key: (newlines, name.lower().replace('_', ' '))
SortKey(it) ==
    [newlines |-> ItemNewlines(it.name, it.value),
     name |-> ReplaceUnderscores(StrLower(it.name))]

\* Item.__lt__ comparing the names alone
ItemLessByName(a, b) == StrLess(SortKey(a).name, SortKey(b).name)

\* Item.__lt__: tuple comparison of the sort keys
ItemLess(a, b) ==
    LET ka == SortKey(a)
        kb == SortKey(b)
    IN  \/ ka.newlines < kb.newlines
        \/ ka.newlines = kb.newlines /\ StrLess(ka.name, kb.name)

IsNameBreak(c) == c \in {"_", ":"}

\* Item.prefix: the text before the first '_' or ':', or without one the
\* leading lower-case letters.
ItemPrefix(name) ==
    IF \E i \in 1..Len(name) : IsNameBreak(name[i])
    THEN LET i == CHOOSE k \in 1..Len(name) :
                      IsNameBreak(name[k]) /\ \A j \in 1..(k - 1) : ~IsNameBreak(name[j])
         IN  SubSeq(name, 1, i - 1)
    ELSE SubSeq(name, 1, Span(name, 1, LowerChars))

ItemGroupname(name) ==
    IF Len(ItemPrefix(name)) <= 4 THEN StrUpper(ItemPrefix(name))
    ELSE Capitalize(ItemPrefix(name))

(***************************************************************************)
(* Config: the ordered sections of config.ini that declare a pattern.      *)
(* A pattern is modelled as a literal the name has to start with.          *)
(***************************************************************************)
Other == <<"O", "t", "h", "e", "r">>

\* Config.rank: the section's position, len(names) for any other name, and
\* rank['Other'] = len(rank) + 1.
Rank(c, name) ==
    IF name = Other THEN Len(c) + 1
    ELSE IF \E i \in 1..Len(c) : c[i].name = name
    THEN (CHOOSE i \in 1..Len(c) : c[i].name = name) - 1
    ELSE Len(c)

\* Config.groupname: the first section whose pattern matches, else the
\* name derived from the item.
Groupname(c, name) ==
    IF \E i \in 1..Len(c) : StartsWith(name, c[i].pattern)
    THEN LET i == CHOOSE k \in 1..Len(c) :
                      /\ StartsWith(name, c[k].pattern)
                      /\ \A j \in 1..(k - 1) : ~StartsWith(name, c[j].pattern)
         IN  c[i].name
    ELSE ItemGroupname(name)

(***************************************************************************)
(* Groups and Group.                                                       *)
(***************************************************************************)
CollapseMinsize == 3

NameKey(name) == [kind |-> "name", name |-> name, id |-> 0]
IdKey(n) == [kind |-> "id", name |-> <<>>, id |-> n]

NewGroup(key, name, rank, members) ==
    [key |-> key, name |-> name, rank |-> rank, members |-> members,
     loop |-> FALSE, var |-> <<>>, tokens |-> <<>>]

\* Groups.__init__
GroupsInit(its, c) ==
    {NewGroup(NameKey(n), n, Rank(c, n), {it \in its : Groupname(c, it.name) = n}) :
        n \in {Groupname(c, it.name) : it \in its}}

\* Config.collapsible and the size test of Groups.collapse
Collapsible(g, c, minsz) == g.rank = Len(c) /\ Cardinality(g.members) < minsz

\* Groups.collapse
Collapse(gs, c, minsz, dst) ==
    LET small == {g \in gs : Collapsible(g, c, minsz) /\ g.key # NameKey(dst)}
        old == {g \in gs : g.key = NameKey(dst)}
        base == IF old = {} THEN {} ELSE (CHOOSE g \in old : TRUE).members
        moved == UNION {g.members : g \in small}
    IN  IF small = {} THEN gs
        ELSE ((gs \ small) \ old)
             \cup {NewGroup(NameKey(dst), dst, Rank(c, dst), base \cup moved)}

\* os.path.commonprefix
RECURSIVE CommonLen(_, _)
CommonLen(S, n) ==
    IF /\ \A x \in S : Len(x) > n
       /\ \A x, y \in S : x[n + 1] = y[n + 1]
    THEN CommonLen(S, n + 1)
    ELSE n

\* string.punctuation + string.whitespace
IsPunctOrSpace(c) ==
    c = NL \/ (~IsLower(c) /\ ~IsUpper(c) /\ ~IsDigit(c))

Strip(s) ==
    LET keep == {i \in 1..Len(s) : ~IsPunctOrSpace(s[i])}
    IN  IF keep = {} THEN <<>>
        ELSE SubSeq(s, CHOOSE i \in keep : \A j \in keep : i <= j,
                       CHOOSE i \in keep : \A j \in keep : j <= i)

\* commonprefix of tomato-nvram.py
Commonprefix(S) ==
    IF S = {} THEN <<>>
    ELSE Strip(SubSeq(CHOOSE x \in S : TRUE, 1, CommonLen(S, 0)))

\* Group.loop declaring all sorted prefixes but the last
GroupLoopShort(key, name, rank, prefixes, keys) ==
    LET var == Commonprefix(Range(prefixes))
        sorted == SortedStrs(Range(prefixes))
    IN  [key |-> key, name |-> name, rank |-> rank,
         members |-> {[name |-> <<"$", "{">> \o var \o <<"}">> \o k[1], value |-> k[2]] :
                        k \in keys},
         loop |-> TRUE, var |-> var, tokens |-> SubSeq(sorted, 1, Len(sorted) - 1)]

\* Group.loop
GroupLoop(key, name, rank, prefixes, keys) ==
    LET var == Commonprefix(Range(prefixes))
    IN  [key |-> key, name |-> name, rank |-> rank,
         members |-> {[name |-> <<"$", "{">> \o var \o <<"}">> \o k[1], value |-> k[2]] :
                        k \in keys},
         loop |-> TRUE, var |-> var, tokens |-> SortedStrs(Range(prefixes))]

(***************************************************************************)
(* Deduper.                                                                *)
(***************************************************************************)
Overhead == 5
BucketLen == 2

\* prefix_pattern.match(name).end(), 0 when there is no match:
\* ([a-z]+_[a-z]+\d+) | [a-z]+\d*(?=_)
PrefixEnd(name) ==
    LET l1 == Span(name, 1, LowerChars)
        l2 == Span(name, l1 + 2, LowerChars)
        d2 == Span(name, l1 + 2 + l2, DigitChars)
        d1 == Span(name, l1 + 1, DigitChars)
    IN  IF /\ l1 >= 1
           /\ Len(name) > l1
           /\ name[l1 + 1] = "_"
           /\ l2 >= 1
           /\ d2 >= 1
        THEN l1 + 1 + l2 + d2
        ELSE IF /\ l1 >= 1
                /\ Len(name) > l1 + d1
                /\ name[l1 + d1 + 1] = "_"
        THEN l1 + d1
        ELSE 0

\* Groups.scan(prefix_pattern): the matching items with their groups, and
\* what Deduper.__init__ takes from each match: the prefix match.group() and
\* the key (name[match.end():], value).
Scan(gs) ==
    UNION {{[item |-> it, group |-> g.key, gname |-> g.name,
             token |-> SubSeq(it.name, 1, PrefixEnd(it.name)),
             key |-> <<SubSeq(it.name, PrefixEnd(it.name) + 1, Len(it.name)), it.value>>] :
              it \in {x \in g.members : PrefixEnd(x.name) > 0}} : g \in gs}

\* Deduper.__init__
PrefixToKeys(sc) ==
    [p \in {r.token : r \in sc} |-> {r.key : r \in {x \in sc : x.token = p}}]

GroupNames(sc) ==
    [pk \in {<<r.token, r.key>> : r \in sc} |->
        (CHOOSE r \in sc : r.token = pk[1] /\ r.key = pk[2]).gname]

Cleanup(sc) ==
    [pk \in {<<r.token, r.key>> : r \in sc} |->
        LET r == CHOOSE x \in sc : x.token = pk[1] /\ x.key = pk[2]
        IN  [item |-> r.item, group |-> r.group]]

\* Deduper.commonkeys
CommonKeys(m, prefixes) ==
    {k \in m[prefixes[1]] : \A i \in 1..Len(prefixes) : k \in m[prefixes[i]]}

\* lines_saved without the fixed cost of a loop
LinesSavedNoOverhead(m, prefixes, keys) ==
    IF Len(prefixes) > 1
    THEN LET ks == IF keys = {} THEN CommonKeys(m, prefixes) ELSE keys
             saved == (Len(prefixes) - 1) * Cardinality(ks)
         IN  IF saved > 0 THEN saved ELSE 0
    ELSE 0

\* Deduper.lines_saved; keys = {} stands for a falsy keys argument (None or
\* the empty set), for which the common keys are computed.
LinesSaved(m, prefixes, keys) ==
    IF Len(prefixes) > 1
    THEN LET ks == IF keys = {} THEN CommonKeys(m, prefixes) ELSE keys
             saved == (Len(prefixes) - 1) * Cardinality(ks) - Overhead
         IN  IF saved > 0 THEN saved ELSE 0
    ELSE 0

\* itertools.combinations(s, r), in its order
RECURSIVE Combinations(_, _)
Combinations(sq, r) ==
    IF r = 0 THEN << <<>> >>
    ELSE IF Len(sq) < r THEN <<>>
    ELSE LET with == Combinations(Tail(sq), r - 1)
         IN  [i \in 1..Len(with) |-> <<Head(sq)>> \o with[i]]
             \o Combinations(Tail(sq), r)

\* Deduper.powerset(iterable, start)
RECURSIVE Powerset(_, _)
Powerset(sq, start) ==
    IF start > Len(sq) THEN <<>>
    ELSE Combinations(sq, start) \o Powerset(sq, start + 1)

Bucket(p) == SubSeq(p, 1, IF Len(p) < BucketLen THEN Len(p) ELSE BucketLen)

\* itertools.groupby over the sorted prefixes, then the power sets chained
RECURSIVE ChainBuckets(_)
ChainBuckets(sq) ==
    IF sq = <<>> THEN <<>>
    ELSE LET n == CHOOSE k \in 1..Len(sq) :
                      /\ \A j \in 1..k : Bucket(sq[j]) = Bucket(sq[1])
                      /\ (k = Len(sq) \/ Bucket(sq[k + 1]) # Bucket(sq[1]))
         IN  Powerset(SubSeq(sq, 1, n), 2) \o ChainBuckets(SubSeq(sq, n + 1, Len(sq)))

\* Deduper.prefix_groups
PrefixGroups(m) ==
    LET Saves(c) == LinesSaved(m, c, {}) # 0
    IN  SelectSeq(ChainBuckets(SortedStrs(DOMAIN m)), Saves)

\* sorted(..., key=..., reverse=True): stable, equal keys keep their order
RECURSIVE SortedDesc(_, _)
SortedDesc(sq, m) ==
    IF sq = <<>> THEN <<>>
    ELSE LET rest == SortedDesc(SubSeq(sq, 1, Len(sq) - 1), m)
             x == sq[Len(sq)]
             n == Cardinality({i \in 1..Len(rest) :
                                 LinesSaved(m, rest[i], {}) >= LinesSaved(m, x, {})})
         IN  SubSeq(rest, 1, n) \o <<x>> \o SubSeq(rest, n + 1, Len(rest))

\* to_factor iterating over the candidates as prefix_groups yields them
FactorOrderUnsorted(m) == PrefixGroups(m)

\* The list to_factor iterates over, built when its first item is asked for
FactorOrder(m) == SortedDesc(PrefixGroups(m), m)

\* The test of to_factor without the second look at the savings
FactorableBySize(m, prefixes, minsz) == Cardinality(CommonKeys(m, prefixes)) >= minsz

\* The test of to_factor, on the key sets as they are now
Factorable(m, prefixes, minsz) ==
    LET keys == CommonKeys(m, prefixes)
    IN  Cardinality(keys) >= minsz /\ LinesSaved(m, prefixes, keys) > 0

\* Deduper.remove, on prefix_to_keys
RemoveKeys(m, prefixes, keys) ==
    [p \in DOMAIN m |-> IF p \in Range(prefixes) THEN m[p] \ keys ELSE m[p]]

\* Deduper.remove running the cleanups of the first prefix only
RemoveItemsFirstPrefix(gs, cl, prefixes, keys) ==
    LET gone(g) == {cl[<<p, k>>].item : <<p, k>> \in
                       {pk \in {prefixes[1]} \X keys : cl[pk].group = g.key}}
    IN  {[g EXCEPT !.members = @ \ gone(g)] :
            g \in {h \in gs : gone(h) = {} \/ h.members \ gone(h) # {}}}

\* Deduper.remove, on the groups: each cleanup removes its item from its
\* group and deletes the group once it is empty (remove_item).
RemoveItems(gs, cl, prefixes, keys) ==
    LET gone(g) == {cl[<<p, k>>].item : <<p, k>> \in
                       {pk \in Range(prefixes) \X keys : cl[pk].group = g.key}}
    IN  {[g EXCEPT !.members = @ \ gone(g)] :
            g \in {h \in gs : gone(h) = {} \/ h.members \ gone(h) # {}}}

(***************************************************************************)
(* The inputs: the diff handed to write_script.                            *)
(***************************************************************************)
Wl(d) == <<"w", "l", d>>
Wan == <<"w", "a", "n">>
CrtName == <<"h", "t", "t", "p", "s", "_", "c", "r", "t", "_", "f", "i", "l", "e">>

Letter(base, i) == Chr(Ord[base] + i - 1)

\* The i-th setting suffix shared by wl0, wl1 and wl2 (the first two are
\* _ssid and _key), and the i-th one shared by wl0, wl1 and wl3.
SuffixA(i) ==
    IF i = 1 THEN <<"_", "s", "s", "i", "d">>
    ELSE IF i = 2 THEN <<"_", "k", "e", "y">>
    ELSE <<"_", "a", Letter("a", i)>>
SuffixB(i) == <<"_", "b", Letter("a", i)>>

Setting(name, value) == [name |-> name, value |-> value]

SettingsA(n, tokens) ==
    {Setting(t \o SuffixA(i), <<Letter("A", i)>>) : t \in tokens, i \in 1..n}
SettingsB(n, tokens) ==
    {Setting(t \o SuffixB(i), <<Letter("a", i)>>) : t \in tokens, i \in 1..n}

\* Settings outside the two families: the wan copy of the first family (in
\* another bucket of prefixes), one suffix whose value differs between wl0
\* and wl1, and a name prefix_pattern does not match.
Extras(n) ==
    SettingsA(n, {Wan})
    \cup {Setting(Wl("0") \o <<"_", "m", "a", "c">>, <<"M">>),
          Setting(Wl("1") \o <<"_", "m", "a", "c">>, <<"N">>),
          Setting(<<"c", "l", "k", "f", "r", "e", "q">>, <<"C">>)}

CrtKinds == {"ok", "badbase64", "nottar", "nopem"}

Diff(na, nb, extras, kind) ==
    SettingsA(na, {Wl("0"), Wl("1"), Wl("2")})
    \cup SettingsB(nb, {Wl("0"), Wl("1"), Wl("3")})
    \cup (IF extras THEN Extras(na) ELSE {})
    \cup (IF kind \in CrtKinds THEN {Setting(CrtName, <<kind>>)} ELSE {})

Section(name, pattern) == [name |-> name, pattern |-> pattern]

Wireless == <<"W", "i", "r", "e", "l", "e", "s", "s">>

Configs ==
    { <<Section(<<"V", "P", "N">>, <<"v", "p", "n">>)>>,
      <<Section(Wireless, <<"w", "l">>)>>,
      <<Section(Wireless \o <<" ", "(", "a", "l", "l", ")">>, <<"w", "l">>)>>,
      <<Section(Wireless \o <<" ", "2", ".", "4">>, Wl("0")),
        Section(Wireless \o <<" ", "5">>, Wl("1"))>> }

NoFile == [exists |-> FALSE, chunks |-> <<>>]
IdleQuote == [pc |-> Idle, value |-> <<>>, text |-> <<>>]
IdleDiffer == [pc |-> Idle, input |-> <<>>, base |-> <<>>, given |-> FALSE, result |-> {}]
IdleFmt == [pc |-> Idle, members |-> <<>>, lines |-> <<>>]

(***************************************************************************)
(* main and write_script.                                                  *)
(***************************************************************************)
Init ==
    /\ pc = "start"
    /\ cfg \in Configs
    /\ minsize \in {2, 3}
    /\ crt = "unset"
    /\ \E na, nb \in 0..MaxKeys, extras \in BOOLEAN, kind \in CrtKinds \cup {"none"} :
           items = Diff(na, nb, extras, kind)
    /\ outfile = NoFile
    /\ groups = {}
    /\ p2k = <<>>
    /\ group_names = <<>>
    /\ cleanup = <<>>
    /\ queue = <<>>
    /\ nextid = 1
    /\ steps = <<>>
    /\ quote = IdleQuote
    /\ differ = IdleDiffer
    /\ fmt = IdleFmt

\* main: an empty diff writes nothing; otherwise the configuration is
\* loaded and the output file is opened for writing.
Open ==
    /\ pc = "start"
    /\ IF items = {}
       THEN pc' = "nodiff" /\ UNCHANGED outfile
       ELSE pc' = "extract" /\ outfile' = [exists |-> TRUE, chunks |-> <<>>]
    /\ UNCHANGED <<aux, cfg, minsize, crt, items, groups, p2k, group_names, cleanup,
                   queue, nextid, steps>>

\* HttpsCrtFile.extract: pop the setting, decode it and open the archive.
Extract ==
    /\ pc = "extract"
    /\ LET found == {it \in items : it.name = CrtName}
           kind == IF found = {} THEN "None" ELSE (CHOOSE it \in found : TRUE).value[1]
       IN  /\ items' = items \ found
           /\ IF kind \in {"badbase64", "nottar"}
              THEN pc' = "failed" /\ UNCHANGED crt
              ELSE pc' = "group" /\ crt' = kind
    /\ UNCHANGED <<aux, cfg, minsize, outfile, groups, p2k, group_names, cleanup,
                   queue, nextid, steps>>

MakeGroups ==
    /\ pc = "group"
    /\ groups' = GroupsInit(items, cfg)
    /\ pc' = "collapse"
    /\ UNCHANGED <<aux, cfg, minsize, crt, items, outfile, p2k, group_names, cleanup,
                   queue, nextid, steps>>

DoCollapse ==
    /\ pc = "collapse"
    /\ groups' = Collapse(groups, cfg, CollapseMinsize, Other)
    /\ pc' = "dedup"
    /\ UNCHANGED <<aux, cfg, minsize, crt, items, outfile, p2k, group_names, cleanup,
                   queue, nextid, steps>>

\* Groups.dedup up to the first item to_factor is asked for: Deduper.__init__
\* and the sorted list of candidates.
DedupStart ==
    /\ pc = "dedup"
    /\ LET sc == Scan(groups)
           m == PrefixToKeys(sc)
       IN  /\ p2k' = m
           /\ group_names' = GroupNames(sc)
           /\ cleanup' = Cleanup(sc)
           /\ queue' = FactorOrder(m)
    /\ pc' = "factor"
    /\ UNCHANGED <<aux, cfg, minsize, crt, items, outfile, groups, nextid, steps>>

\* The loop group given the rank of an unknown name
LoopRankDefault(c, name) == Len(c)

\* The rank Deduper.dedup gives a loop group: config.rank[name]
LoopRank(c, name) == Rank(c, name)

\* The candidates left that pass the test of to_factor now
FactorableNow == {i \in 1..Len(queue) : Factorable(p2k, queue[i], minsize)}

FirstFactorable == CHOOSE i \in FactorableNow : \A j \in FactorableNow : i <= j

\* One iteration of the loop of Deduper.dedup: to_factor skips to the next
\* candidate that passes its test, and the loop body factors it.
DedupStep ==
    /\ pc = "factor"
    /\ FactorableNow # {}
    /\ LET first == FirstFactorable
           prefixes == queue[first]
           keys == CommonKeys(p2k, prefixes)
           name == Commonprefix({group_names[pk] : pk \in Range(prefixes) \X keys})
           group == GroupLoop(IdKey(nextid), name, LoopRank(cfg, name), prefixes, keys)
           after == RemoveItems(groups, cleanup, prefixes, keys)
           before == UNION {g.members : g \in groups}
           removed == before \ UNION {g.members : g \in after}
       IN  /\ groups' = after \cup {group}
           /\ p2k' = RemoveKeys(p2k, prefixes, keys)
           /\ queue' = SubSeq(queue, first + 1, Len(queue))
           /\ steps' = Append(steps,
                  [prefixes |-> prefixes, keys |-> keys, before |-> p2k,
                   group |-> IdKey(nextid), removed |-> removed,
                   names |-> {g.name : g \in {h \in groups : h.members \cap removed # {}}},
                   ranks |-> {g.rank : g \in {h \in groups : h.members \cap removed # {}}}])
    /\ nextid' = nextid + 1
    /\ UNCHANGED <<aux, pc, cfg, minsize, crt, items, outfile, group_names, cleanup>>

\* to_factor is exhausted: dedup returns.
DedupEnd ==
    /\ pc = "factor"
    /\ FactorableNow = {}
    /\ queue' = <<>>
    /\ pc' = "write_groups"
    /\ UNCHANGED <<aux, cfg, minsize, crt, items, outfile, groups, p2k, group_names,
                   cleanup, nextid, steps>>

WriteGroups ==
    /\ pc = "write_groups"
    /\ outfile' = [outfile EXCEPT !.chunks = Append(@, "groups")]
    /\ pc' = "write_crt"
    /\ UNCHANGED <<aux, cfg, minsize, crt, items, groups, p2k, group_names, cleanup,
                   queue, nextid, steps>>

\* HttpsCrtFile.formatted reads etc/cert.pem and etc/key.pem of the archive.
WriteCrt ==
    /\ pc = "write_crt"
    /\ IF crt = "None"
       THEN pc' = "write_commit" /\ UNCHANGED outfile
       ELSE IF crt = "nopem"
       THEN pc' = "failed" /\ UNCHANGED outfile
       ELSE pc' = "write_commit" /\ outfile' = [outfile EXCEPT !.chunks = Append(@, "certificate")]
    /\ UNCHANGED <<aux, cfg, minsize, crt, items, groups, p2k, group_names, cleanup,
                   queue, nextid, steps>>

WriteCommit ==
    /\ pc = "write_commit"
    /\ outfile' = [outfile EXCEPT !.chunks = Append(@, "commit")]
    /\ pc' = "done"
    /\ UNCHANGED <<aux, cfg, minsize, crt, items, groups, p2k, group_names, cleanup,
                   queue, nextid, steps>>

Next ==
    \/ Open
    \/ Extract
    \/ MakeGroups
    \/ DoCollapse
    \/ DedupStart
    \/ DedupStep
    \/ DedupEnd
    \/ WriteGroups
    \/ WriteCrt
    \/ WriteCommit

Spec == Init /\ [][Next]_vars

PipelineIdle ==
    /\ pc = Idle
    /\ cfg = <<>>
    /\ minsize = 0
    /\ crt = Idle
    /\ items = {}
    /\ outfile = NoFile
    /\ groups = {}
    /\ p2k = <<>>
    /\ group_names = <<>>
    /\ cleanup = <<>>
    /\ queue = <<>>
    /\ nextid = 0
    /\ steps = <<>>

\* The sequences of at most n elements of S
RECURSIVE SeqsUpTo(_, _)
SeqsUpTo(S, n) ==
    IF n = 0 THEN {<<>>}
    ELSE LET shorter == SeqsUpTo(S, n - 1)
         IN  shorter \cup {Append(q, x) : q \in {r \in shorter : Len(r) = n - 1}, x \in S}

(***************************************************************************)
(* Item.quoted on every value of a bounded length (SpecQuote).             *)
(***************************************************************************)
QuoteChars == {"a", " ", NL, "'", "\"", "\\", BQ, "$", ">"}

InitQuote ==
    /\ PipelineIdle
    /\ differ = IdleDiffer
    /\ fmt = IdleFmt
    /\ \E v \in SeqsUpTo(QuoteChars, MaxValueLen) :
           quote = [pc |-> "value", value |-> v, text |-> <<>>]

Quote ==
    /\ quote.pc = "value"
    /\ quote' = [quote EXCEPT !.pc = "quoted", !.text = Quoted(quote.value)]
    /\ UNCHANGED <<pipeline, differ, fmt>>

SpecQuote == InitQuote /\ [][Quote]_vars

(***************************************************************************)
(* diff_files (SpecDiff).                                                  *)
(***************************************************************************)
HttpId == <<"h", "t", "t", "p", "_", "i", "d">>
CacheSuffix == <<"_", "c", "a", "c", "h", "e">>

IsWord(c) == IsLower(c) \/ IsUpper(c) \/ IsDigit(c) \/ c = "_"

\* ignore_names.match(name): http_id | os_\w+ | \w+_cache, from the start
IgnoreName(name) ==
    \/ StartsWith(name, HttpId)
    \/ StartsWith(name, <<"o", "s", "_">>) /\ Len(name) >= 4 /\ IsWord(name[4])
    \/ \E i \in 2..Len(name) :
           /\ \A j \in 1..(i - 1) : IsWord(name[j])
           /\ StartsWith(SubSeq(name, i, Len(name)), CacheSuffix)

\* keep_item
KeepItem(pair) == ~IgnoreName(pair[1])

\* parse_nvram_txt, from the (name, value) pairs the split of the text gives
Parse(stanzas) == SelectSeq(stanzas, KeepItem)

\* dict() of a sequence of pairs: a later pair replaces an earlier one of
\* the same name.
DictOfSeq(sq) ==
    {sq[i] : i \in {k \in 1..Len(sq) : \A j \in (k + 1)..Len(sq) : sq[j][1] # sq[k][1]}}

\* dict() of a set of pairs: the pairs are taken in the set's iteration
\* order, which the hash seed decides, so any one pair per name may stay.
DictsOfSet(S) ==
    {D \in SUBSET S :
        /\ \A x \in S : \E y \in D : y[1] = x[1]
        /\ \A x, y \in D : x[1] = y[1] => x = y}

\* diff_files dropping every name the base holds, whatever its value
DiffFilesByName(input, base, given) ==
    IF given
    THEN DictsOfSet({x \in Range(Parse(input)) :
                        \A y \in Range(Parse(base)) : y[1] # x[1]})
    ELSE {DictOfSeq(Parse(input))}

\* diff_files: the mappings it may return; given tells whether a base file
\* name was passed.
DiffFiles(input, base, given) ==
    IF given
    THEN DictsOfSet(Range(Parse(input)) \ Range(Parse(base)))
    ELSE {DictOfSeq(Parse(input))}

StanzaNames == {<<"a">>, <<"b">>, HttpId}
StanzaValues == {<<"1">>, <<"2">>}

InitDiff ==
    /\ PipelineIdle
    /\ quote = IdleQuote
    /\ fmt = IdleFmt
    /\ \E input \in SeqsUpTo(StanzaNames \X StanzaValues, MaxStanzas),
          base \in SeqsUpTo(StanzaNames \X StanzaValues, MaxStanzas - 1),
          given \in BOOLEAN :
           /\ (~given => base = <<>>)
           /\ differ = [pc |-> "start", input |-> input, base |-> base,
                        given |-> given, result |-> {}]

DoDiff ==
    /\ differ.pc = "start"
    /\ \E D \in DiffFiles(differ.input, differ.base, differ.given) :
           differ' = [differ EXCEPT !.pc = "done", !.result = D]
    /\ UNCHANGED <<pipeline, quote, fmt>>

SpecDiff == InitDiff /\ [][DoDiff]_vars

(***************************************************************************)
(* Group.formatted (SpecFmt).                                              *)
(***************************************************************************)
\* sorted(self): stable, by Item.__lt__
RECURSIVE SortedItems(_)
SortedItems(sq) ==
    IF sq = <<>> THEN <<>>
    ELSE LET rest == SortedItems(SubSeq(sq, 1, Len(sq) - 1))
             x == sq[Len(sq)]
             n == Cardinality({i \in 1..Len(rest) : ~ItemLess(x, rest[i])})
         IN  SubSeq(rest, 1, n) \o <<x>> \o SubSeq(rest, n + 1, Len(rest))

IsSingle(it) == ItemNewlines(it.name, it.value) = 0
IsMulti(it) == ItemNewlines(it.name, it.value) # 0

\* Group.formatted: the items in the order their commands are rendered
Formatted(members) ==
    SelectSeq(SortedItems(members), IsSingle) \o SelectSeq(SortedItems(members), IsMulti)

FmtNames == {<<"a", "_", "b">>, <<"a", "0">>, <<"B">>, <<"a">>}
FmtValues == {<<"x">>, <<"p", ">", "q">>, <<"x", NL, "y">>, <<"x", NL, "y", NL, "z">>}

InitFmt ==
    /\ PipelineIdle
    /\ quote = IdleQuote
    /\ differ = IdleDiffer
    /\ \E names \in SeqsUpTo(FmtNames, MaxItems) :
           /\ names # <<>>
           /\ \A i, j \in 1..Len(names) : i # j => names[i] # names[j]
           /\ \E values \in [1..Len(names) -> FmtValues] :
                  fmt = [pc |-> "group",
                         members |-> [i \in 1..Len(names) |-> Setting(names[i], values[i])],
                         lines |-> <<>>]

Format ==
    /\ fmt.pc = "group"
    /\ fmt' = [fmt EXCEPT !.pc = "formatted", !.lines = Formatted(fmt.members)]
    /\ UNCHANGED <<pipeline, quote, differ>>

SpecFmt == InitFmt /\ [][Format]_vars


(***************************************************************************)
(* Properties of the grouping and factoring pipeline (Spec).               *)
(***************************************************************************)
Originals == {g \in groups : ~g.loop}
Loops == {g \in groups : g.loop}

\* The groups exist: Groups(...) has been constructed.
Grouped ==
    \/ pc \in {"collapse", "dedup", "factor", "write_groups", "write_crt",
               "write_commit", "done"}
    \/ pc = "failed" /\ crt # "unset"

Deduped == pc \in {"write_groups", "write_crt", "write_commit", "done"}

\* What the shell makes of a loop group: each declared token substituted for
\* the ${var} that starts each member's name.
Expand(g) ==
    {[name |-> tok \o SubSeq(m.name, Len(g.var) + 4, Len(m.name)), value |-> m.value] :
        tok \in Range(g.tokens), m \in g.members}

\* The places where a setting is represented
OriginalReps(it) == {g \in Originals : it \in g.members}
LoopReps(it) ==
    {r \in UNION {{<<g.key, i, m>> : i \in 1..Len(g.tokens), m \in g.members} : g \in Loops} :
        LET g == CHOOSE h \in Loops : h.key = r[1]
        IN  it = [name |-> g.tokens[r[2]] \o SubSeq(r[3].name, Len(g.var) + 4, Len(r[3].name)),
                  value |-> r[3].value]}

LoopOf(e) == CHOOSE g \in groups : g.key = e.group

Min(S) == CHOOSE x \in S : \A y \in S : x <= y

\* C1: once the groups are built, and after collapse and every factoring
\* step, every setting of the diff is represented exactly once, in an
\* original group or as one (token, key) combination of a loop group, and
\* nothing else is represented.
C1_Coverage ==
    Grouped =>
        /\ \A it \in items :
               Cardinality(OriginalReps(it)) + Cardinality(LoopReps(it)) = 1
        /\ (UNION {g.members : g \in Originals}) \cup (UNION {Expand(g) : g \in Loops})
               = items

C1_Witness ==
    /\ pc = "done"
    /\ Len(steps) >= 2
    /\ Originals # {}
    /\ \E g \in Originals : g.name = Other

\* C2: expanding a loop group over its declared tokens gives exactly the
\* settings its factoring step removed from the original groups.
C2_Soundness ==
    \A i \in 1..Len(steps) :
        /\ \E g \in Loops : g.key = steps[i].group
        /\ Expand(LoopOf(steps[i])) = steps[i].removed

C2_Witness ==
    /\ Len(steps) >= 1
    /\ Cardinality(steps[1].removed) >= 9
    /\ \E it \in items : it.value = <<"N">>

\* C3: every loop group emitted has (P - 1) * K - 5 > 0, P its declared
\* tokens and K its keys.
C3_Benefit ==
    \A i \in 1..Len(steps) :
        LET g == LoopOf(steps[i])
        IN  (Len(g.tokens) - 1) * Cardinality(g.members) - 5 > 0

\* Two groups were emitted, and dedup ended leaving a pair of prefixes with
\* minsize common keys that no longer pays.
C3_Witness ==
    /\ Len(steps) >= 2
    /\ pc = "write_groups"
    /\ \E S \in SUBSET DOMAIN p2k :
           /\ Cardinality(S) = 2
           /\ LET ks == {k \in UNION {p2k[p] : p \in S} : \A p \in S : k \in p2k[p]}
              IN  Cardinality(ks) >= minsize

Scenario ==
    /\ items = Diff(2, 0, FALSE, "none")
    /\ minsize = 2

\* C6 as stated: in the scenario, dedup leaves exactly one loop group, over
\* wl0 wl1 wl2 with the keys ssid=A and key=B.
C6_OneLoop ==
    (Scenario /\ Deduped) =>
        /\ Cardinality(Loops) = 1
        /\ \A g \in Loops :
               /\ g.tokens = <<Wl("0"), Wl("1"), Wl("2")>>
               /\ Expand(g) = items

\* C6, amended: in the scenario no loop group is emitted, and the six
\* settings stay in the original groups.
C6_NoLoop ==
    (Scenario /\ Deduped) =>
        /\ Loops = {}
        /\ steps = <<>>
        /\ UNION {g.members : g \in Originals} = items

C6_Witness == Scenario /\ pc = "done" /\ Cardinality(items) = 6

\* C7: a run that fails leaves no output file behind.
C7_NoPartialOutput == pc = "failed" => ~outfile.exists

\* C9 as stated: a loop group's rank is the least rank of the groups its
\* settings came from.
C9_MinRank ==
    \A i \in 1..Len(steps) : LoopOf(steps[i]).rank = Min(steps[i].ranks)

CleanName(n) == n # <<>> /\ ~IsPunctOrSpace(n[1]) /\ ~IsPunctOrSpace(n[Len(n)])

\* C9, amended: a loop group's rank is the rank the category table gives to
\* the group's own name; it is the least source rank when the settings came
\* from one group whose name neither starts nor ends with punctuation or
\* white space.
C9_RankOfName ==
    \A i \in 1..Len(steps) :
        LET g == LoopOf(steps[i])
            sections == {j \in 1..Len(cfg) : cfg[j].name = g.name}
        IN  /\ g.rank = IF g.name = Other THEN Len(cfg) + 1
                        ELSE IF sections # {} THEN Min(sections) - 1
                        ELSE Len(cfg)
            /\ (Cardinality(steps[i].names) = 1 /\ \A n \in steps[i].names : CleanName(n))
                   => g.name \in steps[i].names /\ g.rank = Min(steps[i].ranks)

\* A loop group whose settings all came from the one section Wireless
C9_Witness ==
    /\ Len(steps) >= 1
    /\ steps[1].names = {Wireless}
    /\ LoopOf(steps[1]).rank = 0
    /\ Len(cfg) = 1

\* The candidates of a step: the subsets of two or more prefixes of one
\* bucket, with their common keys and savings on given key sets.
Candidates(m) ==
    {S \in SUBSET DOMAIN m :
        /\ Cardinality(S) >= 2
        /\ \A p, q \in S : SubSeq(p, 1, 2) = SubSeq(q, 1, 2)}

KeysOf(m, S) == {k \in UNION {m[p] : p \in S} : \A p \in S : k \in m[p]}
SavingsOf(m, S) == (Cardinality(S) - 1) * Cardinality(KeysOf(m, S)) - 5

\* C10 as stated: the subset a step factors has the greatest savings, on
\* the key sets as they are at that step, among the candidates that still
\* have minsize common keys.
C10_MaxNow ==
    \A i \in 1..Len(steps) :
        \A S \in Candidates(steps[i].before) :
            Cardinality(KeysOf(steps[i].before, S)) >= minsize
                => SavingsOf(steps[i].before, S)
                       <= SavingsOf(steps[i].before, Range(steps[i].prefixes))

\* C10, amended: the subset a step factors has the greatest savings as
\* evaluated on the key sets before the first removal, among the candidates
\* that at that step still have minsize common keys and positive savings.
C10_MaxInitial ==
    \A i \in 1..Len(steps) :
        \A S \in Candidates(steps[i].before) :
            (/\ Cardinality(KeysOf(steps[i].before, S)) >= minsize
             /\ SavingsOf(steps[i].before, S) > 0)
                => SavingsOf(steps[1].before, S)
                       <= SavingsOf(steps[1].before, Range(steps[i].prefixes))

\* A second step is taken while another candidate is worth more now.
C10_Witness ==
    /\ Len(steps) >= 2
    /\ \E S \in Candidates(steps[2].before) :
           /\ Cardinality(KeysOf(steps[2].before, S)) >= minsize
           /\ SavingsOf(steps[2].before, S)
                  > SavingsOf(steps[2].before, Range(steps[2].prefixes))

(***************************************************************************)
(* Properties of Item.quoted (SpecQuote).                                  *)
(***************************************************************************)
\* What a failed reading of the text leaves in the word: no value holds it.
Unreadable == "unreadable"

\* Characters that end or alter an unquoted word
ShellMeta == {" ", NL, "|", "&", ";", "<", ">", "(", ")", "*", "?", "[", "#", "~"}

\* A '$' at position i starts an expansion
Expands(t, i) ==
    /\ i < Len(t)
    /\ \/ IsWord(t[i + 1])
       \/ t[i + 1] \in {"{", "(", "@", "*", "#", "?", "-", "$", "!"}

\* The word a POSIX shell reads from the text t, from position i on, in
\* mode "plain", "single" (inside '...') or "double" (inside "...").
RECURSIVE ShWord(_, _, _)
ShWord(t, i, mode) ==
    IF i > Len(t) THEN (IF mode = "plain" THEN <<>> ELSE <<Unreadable>>)
    ELSE IF mode = "single"
    THEN IF t[i] = "'" THEN ShWord(t, i + 1, "plain")
         ELSE <<t[i]>> \o ShWord(t, i + 1, "single")
    ELSE IF t[i] = BQ \/ (t[i] = "$" /\ Expands(t, i)) THEN <<Unreadable>>
    ELSE IF mode = "double"
    THEN IF t[i] = "\"" THEN ShWord(t, i + 1, "plain")
         ELSE IF t[i] = "\\"
         THEN IF i = Len(t) THEN <<Unreadable>>
              ELSE IF t[i + 1] = NL THEN ShWord(t, i + 2, "double")
              ELSE IF t[i + 1] \in {"\"", "\\", BQ, "$"}
              THEN <<t[i + 1]>> \o ShWord(t, i + 2, "double")
              ELSE <<"\\">> \o ShWord(t, i + 1, "double")
         ELSE <<t[i]>> \o ShWord(t, i + 1, "double")
    ELSE IF t[i] = "'" THEN ShWord(t, i + 1, "single")
    ELSE IF t[i] = "\"" THEN ShWord(t, i + 1, "double")
    ELSE IF t[i] = "\\"
    THEN IF i = Len(t) THEN <<Unreadable>>
         ELSE IF t[i + 1] = NL THEN ShWord(t, i + 2, "plain")
         ELSE <<t[i + 1]>> \o ShWord(t, i + 2, "plain")
    ELSE IF t[i] \in ShellMeta THEN <<Unreadable>>
    ELSE <<t[i]>> \o ShWord(t, i + 1, "plain")

\* C4: the shell reads the quoted text back as the value.
C4_RoundTrip ==
    quote.pc = "quoted" => ShWord(quote.text, 1, "plain") = quote.value

\* A value with a newline, a single quote and a character that has to be
\* escaped has been quoted.
C4_Witness ==
    /\ quote.pc = "quoted"
    /\ {NL, "'", "$"} \subseteq Range(quote.value)
    /\ quote.value[Len(quote.value)] # "$"

(***************************************************************************)
(* Properties of diff_files (SpecDiff).                                    *)
(***************************************************************************)
ParsedInput == Range(Parse(differ.input))
ParsedBase == Range(Parse(differ.base))

\* C5 as stated: the mapping holds exactly the pairs of the parsed input
\* that are not pairs of the parsed base, and all of the input without base.
C5_ExactPairs ==
    differ.pc = "done" =>
        differ.result = IF differ.given THEN ParsedInput \ ParsedBase ELSE ParsedInput

\* C5, amended: the mapping holds one pair of the input that is absent from
\* the base for every name that has such a pair, and nothing else; so it is
\* exactly those pairs when no name has two of them. Without a base every
\* name keeps its last parsed value.
C5_OnePairPerName ==
    differ.pc = "done" =>
        LET D == IF differ.given THEN ParsedInput \ ParsedBase ELSE ParsedInput
        IN  /\ differ.result \subseteq D
            /\ \A x \in D : Cardinality({y \in differ.result : y[1] = x[1]}) = 1
            /\ (\A x, y \in D : x[1] = y[1] => x = y) => differ.result = D
            /\ ~differ.given =>
                   LET parsed == Parse(differ.input)
                   IN  \A i \in 1..Len(parsed) :
                           (\A j \in (i + 1)..Len(parsed) : parsed[j][1] # parsed[i][1])
                               => parsed[i] \in differ.result

\* A diff against a base that drops an equal pair and keeps a changed one
C5_Witness ==
    /\ differ.pc = "done"
    /\ differ.given
    /\ ParsedInput \cap ParsedBase # {}
    /\ \E x \in differ.result : \E y \in ParsedBase : x[1] = y[1] /\ x[2] # y[2]

(***************************************************************************)
(* Properties of Group.formatted (SpecFmt).                                *)
(***************************************************************************)
LowerName(it) == StrLower(it.name)
Multiline(it) == NL \in Range(Command(it.name, it.value))

\* C8 as stated: the single-line settings come before the multi-line ones,
\* and each of the two runs is in ascending order of the lower-cased name.
C8_ByLowerName ==
    fmt.pc = "formatted" =>
        \A i, j \in 1..Len(fmt.lines) :
            i < j =>
                /\ ~(Multiline(fmt.lines[i]) /\ ~Multiline(fmt.lines[j]))
                /\ Multiline(fmt.lines[i]) = Multiline(fmt.lines[j])
                       => ~StrLess(LowerName(fmt.lines[j]), LowerName(fmt.lines[i]))

SpacedName(it) ==
    [i \in 1..Len(it.name) |-> IF it.name[i] = "_" THEN " " ELSE Lower(it.name[i])]
NewlinesIn(it) == Count(Command(it.name, it.value), NL)

\* C8, amended: the single-line settings come before the multi-line ones,
\* and the settings are in ascending order of the number of newlines of
\* their command and then of the lower-cased name with each '_' read as a
\* space; every member is rendered once.
C8_BySortKey ==
    fmt.pc = "formatted" =>
        /\ \A i, j \in 1..Len(fmt.lines) :
               i < j =>
                   /\ ~(Multiline(fmt.lines[i]) /\ ~Multiline(fmt.lines[j]))
                   /\ NewlinesIn(fmt.lines[i]) <= NewlinesIn(fmt.lines[j])
                   /\ NewlinesIn(fmt.lines[i]) = NewlinesIn(fmt.lines[j])
                          => ~StrLess(SpacedName(fmt.lines[j]), SpacedName(fmt.lines[i]))
        /\ Len(fmt.lines) = Len(fmt.members)
        /\ Range(fmt.lines) = Range(fmt.members)

\* A group with single-line and multi-line settings of different heights
C8_Witness ==
    /\ fmt.pc = "formatted"
    /\ Len(fmt.lines) = 3
    /\ ~Multiline(fmt.lines[1])
    /\ NewlinesIn(fmt.lines[2]) # 0
    /\ NewlinesIn(fmt.lines[2]) < NewlinesIn(fmt.lines[3])
    /\ StrLess(LowerName(fmt.lines[3]), LowerName(fmt.lines[2]))

====
